---- MODULE Spec2Model ----
(***************************************************************************)
(* A model of package bloomflt (github.com/quasoft/bloomflt): a Bloom      *)
(* filter over a big.Int bit store, with FNV-1a and CRC-32 as base hashes  *)
(* and the Kirsch-Mitzenmacher double hashing scheme.                      *)
(*                                                                         *)
(* Machine integers keep their width.  A machine integer is a sequence of  *)
(* 16-bit limbs, least significant first: a uint32 has two limbs, a Go int *)
(* (64-bit build) and a uint64 have four, an int in two's complement.      *)
(* A byte is a number in 0..255 and a []byte or a string a sequence of     *)
(* bytes.                                                                  *)
(***************************************************************************)
EXTENDS Integers, Sequences, FiniteSets, TLC

(***************************************************************************)
(* Limb arithmetic.  Loops are recursive functions of the loop index, so   *)
(* that every operator below is a constant-level expression of its         *)
(* arguments, and each iterate is evaluated before the step that uses it   *)
(* (Then), which keeps the evaluation of a loop shallow.                   *)
(***************************************************************************)
Base == 2^16

\* e, with v evaluated first
Then(v, e) == IF v = v THEN e ELSE e

\* the natural number n < 2^31 as w limbs
NatLimbs(n, w) ==
    LET f[i \in 0..w] ==
            IF i = 0 THEN << >>
            ELSE Append(f[i - 1], IF i = 1 THEN n % Base
                                  ELSE IF i = 2 THEN n \div Base ELSE 0)
    IN  f[w]

\* x, cut or zero-extended to w limbs: the conversion between unsigned widths
Resize(x, w) ==
    LET f[i \in 0..w] ==
            IF i = 0 THEN << >>
            ELSE Append(f[i - 1], IF i <= Len(x) THEN x[i] ELSE 0)
    IN  f[w]

\* a + b, wrapping at the width of a (b has a's width)
AddWrap(a, b) ==
    LET f[i \in 0..Len(a)] ==
            IF i = 0 THEN [carry |-> 0, out |-> << >>]
            ELSE LET p == f[i - 1]
                     t == a[i] + b[i] + p.carry
                 IN  [carry |-> t \div Base, out |-> Append(p.out, t % Base)]
    IN  f[Len(a)].out

\* a - b, wrapping at the width of a (b has a's width)
SubWrap(a, b) ==
    LET f[i \in 0..Len(a)] ==
            IF i = 0 THEN [borrow |-> 0, out |-> << >>]
            ELSE LET p == f[i - 1]
                     t == a[i] - b[i] - p.borrow
                 IN  IF t < 0
                     THEN [borrow |-> 1, out |-> Append(p.out, t + Base)]
                     ELSE [borrow |-> 0, out |-> Append(p.out, t)]
    IN  f[Len(a)].out

\* unsigned a < b (same width): decided by the most significant limb that
\* differs
ULess(a, b) ==
    LET f[i \in 0..Len(a)] ==
            IF i = 0 THEN FALSE
            ELSE IF a[i] # b[i] THEN a[i] < b[i]
            ELSE f[i - 1]
    IN  f[Len(a)]

\* a signed (two's complement) machine integer is negative
IsNeg(a) == a[Len(a)] >= Base \div 2

\* signed a < b (same width)
SLess(a, b) == IF IsNeg(a) # IsNeg(b) THEN IsNeg(a) ELSE ULess(a, b)

\* the product of two limbs as a two-limb number, with no intermediate
\* exceeding 2^25
MulLimb(x, y) ==
    LET p1  == x * (y % 256)
        p2  == x * (y \div 256)
        mid == p1 + (p2 % 256) * 256
    IN  << mid % Base, (p2 \div 256) + (mid \div Base) >>

\* a * b of two uint32, wrapping at 32 bits: the low limb product, and the
\* cross products into the high limb
MulWrap32(a, b) ==
    LET low == MulLimb(a[1], b[1])
    IN  << low[1],
           (low[2] + MulLimb(a[1], b[2])[1] + MulLimb(a[2], b[1])[1]) % Base >>

\* (2 * r + bit) mod d for r < d, with no intermediate reaching 2 * d
DoubleMod(r, bit, d) ==
    LET rest == SubWrap(d, r)
        twice == IF ULess(r, rest) THEN AddWrap(r, r) ELSE SubWrap(r, rest)
        one == NatLimbs(bit, Len(d))
    IN  IF bit = 0 THEN twice
        ELSE IF SubWrap(d, twice) = one THEN NatLimbs(0, Len(d))
        ELSE AddWrap(twice, one)

\* bit n (0 the least significant) of x
BitOf(x, n) == (x[(n \div 16) + 1] \div 2^(n % 16)) % 2

\* x mod d (unsigned, d # 0, same width): long division, from the most
\* significant bit of x down
UMod(x, d) ==
    LET bits == 16 * Len(x)
        r[i \in 0..bits] ==
            IF i = 0 THEN NatLimbs(0, Len(d))
            ELSE LET prev == r[i - 1]
                 IN  Then(prev, DoubleMod(prev, BitOf(x, bits - i), d))
    IN  r[bits]

\* bit i of the exclusive or of two limbs, in place
XorBit(x, y, i) == (((x \div 2^i) + (y \div 2^i)) % 2) * 2^i

\* bitwise exclusive or of two limbs
XorNat(x, y) ==
    ( ( (XorBit(x, y, 0) + XorBit(x, y, 1))
      + (XorBit(x, y, 2) + XorBit(x, y, 3)) )
    + ( (XorBit(x, y, 4) + XorBit(x, y, 5))
      + (XorBit(x, y, 6) + XorBit(x, y, 7)) ) )
    +
    ( ( (XorBit(x, y, 8) + XorBit(x, y, 9))
      + (XorBit(x, y, 10) + XorBit(x, y, 11)) )
    + ( (XorBit(x, y, 12) + XorBit(x, y, 13))
      + (XorBit(x, y, 14) + XorBit(x, y, 15)) ) )

\* bitwise exclusive or of two uint32
Xor32(a, b) == << XorNat(a[1], b[1]), XorNat(a[2], b[2]) >>

\* a uint32 shifted right by n < 16 bits
ShiftRight32(a, n) ==
    << (a[1] \div 2^n) + (a[2] % 2^n) * 2^(16 - n), a[2] \div 2^n >>

(***************************************************************************)
(* The machine types of the package.                                       *)
(***************************************************************************)
\* limbs of a uint32, and of an int or a uint64
U32Limbs == 32 \div 16

IntLimbs == 64 \div 16

\* uint32(x) of an int x, int(x) of a uint32 x
ToUint32(x) == Resize(x, U32Limbs)

ToInt(x) == Resize(x, IntLimbs)

\* the Go int with the small non-negative value n
GoInt(n) == NatLimbs(n, IntLimbs)

\* math.MaxInt32 as an int
MaxInt32 == << Base - 1, (Base \div 2) - 1, 0, 0 >>

(***************************************************************************)
(* hash/fnv and hash/crc32 of the standard library, as hash1 and hash2 use *)
(* them: New32a().Write(value).Sum32() and NewIEEE().Write(value).Sum32(). *)
(***************************************************************************)
\* fnv: offset32 = 2166136261 (0x811C9DC5), prime32 = 16777619 (0x01000193)
FnvOffset32 == << 40389, 33052 >>

FnvPrime32 == << 403, 256 >>

\* FNV-1a: for each byte, hash ^= byte, then hash *= prime32
Fnv32a(value) ==
    LET hash[i \in 0..Len(value)] ==
            IF i = 0 THEN FnvOffset32
            ELSE LET h == hash[i - 1]
                 IN  Then(h, MulWrap32(Xor32(h, << value[i], 0 >>), FnvPrime32))
    IN  hash[Len(value)]

\* crc32: the IEEE polynomial, reversed (0xEDB88320), and 0xFFFFFFFF
CrcIEEE == << 33568, 60856 >>

AllOnes32 == << Base - 1, Base - 1 >>

\* one bit of the table entry: shift right, and xor the polynomial in when
\* a 1 falls out
CrcBit(crc) ==
    IF crc[1] % 2 = 1 THEN Xor32(ShiftRight32(crc, 1), CrcIEEE)
    ELSE ShiftRight32(crc, 1)

\* entry i of the IEEE table (simpleMakeTable): eight bits of i
CrcTable(i) ==
    CrcBit(CrcBit(CrcBit(CrcBit(CrcBit(CrcBit(CrcBit(CrcBit(<< i, 0 >>))))))))

\* crc = ^crc; for each byte: crc = tab[byte(crc) ^ b] ^ (crc >> 8); return ^crc
Crc32IEEE(value) ==
    LET crc[i \in 0..Len(value)] ==
            IF i = 0 THEN AllOnes32
            ELSE LET c == crc[i - 1]
                 IN  Then(c, Xor32(CrcTable(XorNat(c[1] % 256, value[i])),
                                   ShiftRight32(c, 8)))
    IN  Xor32(crc[Len(value)], AllOnes32)

(***************************************************************************)
(* Package bloomflt.  A BloomFilter is a record [m, k, bucket]: m and k    *)
(* are Go ints, bucket is the big.Int bit store, held as the set of the    *)
(* indices of its 1 bits (each a Go int).                                  *)
(***************************************************************************)
\* the values the model draws its calls from
MaxM == 3

MaxK == 3

\* results of CalcOptimalMK(n, falsePositiveRate), as pairs << m, k >>:
\*   (216553, 0.01) -> (2075673, 7)     (1, 0.5) -> (1, 1)
\*   (1, 0.9) -> (0, 0)
\*   (0, 0.01) -> (0, int(NaN)): the conversion of NaN is implementation-
\*       dependent, math.MinInt64 on amd64 and 0 on arm64
\*   (math.MaxInt32, 0.001) -> (30875634181, 10)
\*   rates above 1 give negative results: (5, 4.0) -> (-13, -1)
CalcOptimalMKResults ==
    { << GoInt(2075673), GoInt(7) >>,
      << GoInt(1), GoInt(1) >>,
      << GoInt(0), GoInt(0) >>,
      << GoInt(0), << 0, 0, 0, Base \div 2 >> >>,
      << << 51717, 12372, 7, 0 >>, GoInt(10) >>,
      << SubWrap(GoInt(0), GoInt(13)), SubWrap(GoInt(0), GoInt(1)) >> }

\* the m of NewMK's calls: 1 .. MaxM, 64, and above math.MaxInt32
\* 2^31, 2^32 and 2^32 + 3
NewMKSizes ==
    { GoInt(n) : n \in 1..MaxM }
    \cup { GoInt(64), << 0, Base \div 2, 0, 0 >>,
           << 0, 0, 1, 0 >>, << 3, 0, 1, 0 >> }

\* the k of NewMK's calls
NewMKHashes == { GoInt(n) : n \in 1..MaxK }

\* []byte arguments: "a"
BytesInputs == { << 97 >> }

\* string arguments, as their bytes: "" and "AnotherValue"
StringInputs ==
    { << >>, << 65, 110, 111, 116, 104, 101, 114, 86, 97, 108, 117, 101 >> }

\* uint32 arguments
UInt32Inputs == { << 1, 0 >> }

\* uint64 arguments: math.MaxUint64 / 2
UInt64Inputs == { << Base - 1, Base - 1, Base - 1, (Base \div 2) - 1 >> }

\* a faulty NewMK, with big.NewInt(1) for the bit store: bit 0 starts set
NewMKOne(m, k) == [m |-> m, k |-> k, bucket |-> { GoInt(0) }]

\* NewMK creates a filter with m bits and k hash functions, all bits 0
NewMK(m, k) == [m |-> m, k |-> k, bucket |-> {}]

\* a faulty New, without the cap of m at math.MaxInt32
NewUncapped(m0, k0) ==
    LET m1 == IF SLess(m0, GoInt(1)) THEN GoInt(1) ELSE m0
        k1 == IF SLess(k0, GoInt(1)) THEN GoInt(1) ELSE k0
    IN  [m |-> m1, k |-> k1, bucket |-> {}]

\* New, from the pair CalcOptimalMK returned
New(m0, k0) ==
    LET m1 == IF SLess(m0, GoInt(1)) THEN GoInt(1) ELSE m0
        m2 == IF SLess(MaxInt32, m1) THEN MaxInt32 ELSE m1
        k1 == IF SLess(k0, GoInt(1)) THEN GoInt(1) ELSE k0
    IN  NewMK(m2, k1)

\* []byte(value) of a string
StringBytes(value) == [i \in 1..Len(value) |-> value[i]]

\* binary.LittleEndian.PutUint32 and PutUint64 into a fresh slice
PutUint32(value) ==
    << value[1] % 256, value[1] \div 256, value[2] % 256, value[2] \div 256 >>

PutUint64(value) ==
    << value[1] % 256, value[1] \div 256, value[2] % 256, value[2] \div 256,
       value[3] % 256, value[3] \div 256, value[4] % 256, value[4] \div 256 >>

\* every []byte the calls of the model hand to AddBytes and ContainsBytes
Values ==
    BytesInputs \cup { StringBytes(v) : v \in StringInputs }
    \cup { PutUint32(v) : v \in UInt32Inputs }
    \cup { PutUint64(v) : v \in UInt64Inputs }

\* the two base hashes, computed once for the values of the model
Fnv32aTable == [value \in Values |-> Fnv32a(value)]

Crc32IEEETable == [value \in Values |-> Crc32IEEE(value)]

hash1(value) == IF value \in Values THEN Fnv32aTable[value] ELSE Fnv32a(value)

hash2(value) ==
    IF value \in Values THEN Crc32IEEETable[value] ELSE Crc32IEEE(value)

\* kiMiHash: (hash1 + hash2 * uint32(hashIdx)) % uint32(m), in uint32
\* arithmetic; the division panics when uint32(m) is 0
kiMiHash(b, value, hashIdx) ==
    LET d == ToUint32(b.m)
    IN  IF d = NatLimbs(0, U32Limbs) THEN [panic |-> TRUE, index |-> GoInt(0)]
        ELSE [panic |-> FALSE,
              index |-> ToInt(UMod(AddWrap(hash1(value),
                                           MulWrap32(hash2(value),
                                                     NatLimbs(hashIdx, U32Limbs))),
                                   d))]

\* every m a filter of the model can have
Sizes == NewMKSizes \cup { New(r[1], r[2]).m : r \in CalcOptimalMKResults }

\* the number of iterations of  for h := 0; h < k; h++  (k below 2^31)
Iterations(k) == IF IsNeg(k) THEN 0 ELSE k[1] + Base * k[2]

\* every probe index of the model
Probes ==
    0 .. (Iterations(CHOOSE k \in NewMKHashes \cup { New(r[1], r[2]).k : r \in CalcOptimalMKResults } :
            \A j \in NewMKHashes \cup { New(r[1], r[2]).k : r \in CalcOptimalMKResults } :
                ~ SLess(k, j)) - 1)

\* kiMiHash, computed once for the filters, values and probes of the model
kiMiHashTable ==
    [m \in Sizes, value \in Values, hashIdx \in Probes |->
        kiMiHash(NewMK(m, GoInt(1)), value, hashIdx)]

kiMiHashOf(b, value, hashIdx) ==
    IF b.m \in Sizes /\ value \in Values /\ hashIdx \in Probes
    THEN kiMiHashTable[b.m, value, hashIdx]
    ELSE kiMiHash(b, value, hashIdx)

\* a faulty SetBit, which flips the bit
SetBitFlip(bucket, index) ==
    IF index \in bucket THEN bucket \ { index } ELSE bucket \cup { index }

\* bucket.SetBit(bucket, index, 1)
SetBit(bucket, index) == bucket \cup { index }

\* bucket.Bit(index)
Bit(bucket, index) == IF index \in bucket THEN 1 ELSE 0

\* a faulty AddBytes, with the probes numbered 1 .. k
AddBytesFromOne(b, value) ==
    LET n == Iterations(b.k)
        loop[h \in 0..n] ==
            IF h = 0 THEN [b |-> b, panic |-> FALSE]
            ELSE LET before == loop[h - 1]
                     at == kiMiHashOf(b, value, h)
                 IN  IF before.panic THEN before
                     ELSE IF at.panic THEN [b |-> before.b, panic |-> TRUE]
                     ELSE [b |-> [before.b EXCEPT
                                    !.bucket = SetBit(before.b.bucket, at.index)],
                           panic |-> FALSE]
    IN  loop[n]

\* AddBytes: the filter after the call, and whether the call panicked
AddBytes(b, value) ==
    LET n == Iterations(b.k)
        loop[h \in 0..n] ==
            IF h = 0 THEN [b |-> b, panic |-> FALSE]
            ELSE LET before == loop[h - 1]
                     at == kiMiHashOf(b, value, h - 1)
                 IN  IF before.panic THEN before
                     ELSE IF at.panic THEN [b |-> before.b, panic |-> TRUE]
                     ELSE [b |-> [before.b EXCEPT
                                    !.bucket = SetBit(before.b.bucket, at.index)],
                           panic |-> FALSE]
    IN  loop[n]

AddString(b, value) == AddBytes(b, StringBytes(value))

AddUInt32(b, value) == AddBytes(b, PutUint32(value))

AddUInt64(b, value) == AddBytes(b, PutUint64(value))

\* a faulty ContainsBytes, where the last bit read decides
ContainsBytesLastBit(b, value) ==
    LET n == Iterations(b.k)
        loop[h \in 0..n] ==
            IF h = 0 THEN [b |-> b, ret |-> TRUE, panic |-> FALSE]
            ELSE LET before == loop[h - 1]
                     at == kiMiHashOf(b, value, h - 1)
                 IN  IF before.panic THEN before
                     ELSE IF at.panic THEN [before EXCEPT !.panic = TRUE]
                     ELSE [before EXCEPT
                             !.ret = (Bit(before.b.bucket, at.index) # 0)]
    IN  loop[n]

\* a faulty ContainsBytes, which sets every bit it finds 0
ContainsBytesSetting(b, value) ==
    LET n == Iterations(b.k)
        loop[h \in 0..n] ==
            IF h = 0 THEN [b |-> b, ret |-> TRUE, panic |-> FALSE]
            ELSE LET before == loop[h - 1]
                     at == kiMiHashOf(b, value, h - 1)
                 IN  IF before.panic THEN before
                     ELSE IF at.panic THEN [before EXCEPT !.panic = TRUE]
                     ELSE IF Bit(before.b.bucket, at.index) = 0
                          THEN [b |-> [before.b EXCEPT
                                         !.bucket = SetBit(before.b.bucket,
                                                           at.index)],
                                ret |-> FALSE, panic |-> FALSE]
                     ELSE before
    IN  loop[n]

\* ContainsBytes: the filter after the call, the result, and whether the
\* call panicked
ContainsBytes(b, value) ==
    LET n == Iterations(b.k)
        loop[h \in 0..n] ==
            IF h = 0 THEN [b |-> b, ret |-> TRUE, panic |-> FALSE]
            ELSE LET before == loop[h - 1]
                     at == kiMiHashOf(b, value, h - 1)
                 IN  IF before.panic THEN before
                     ELSE IF at.panic THEN [before EXCEPT !.panic = TRUE]
                     ELSE IF Bit(before.b.bucket, at.index) = 0
                          THEN [before EXCEPT !.ret = FALSE]
                     ELSE before
    IN  loop[n]

ContainsString(b, value) == ContainsBytes(b, StringBytes(value))

\* a faulty ContainsUInt32, with the big-endian encoding
ContainsUInt32BigEndian(b, value) ==
    ContainsBytes(b, << value[2] \div 256, value[2] % 256,
                       value[1] \div 256, value[1] % 256 >>)

ContainsUInt32(b, value) == ContainsBytes(b, PutUint32(value))

ContainsUInt64(b, value) == ContainsBytes(b, PutUint64(value))

(***************************************************************************)
(* The program: one filter, constructed once and then used.                *)
(*   pc     "start" before the constructor, "ready" after it, "panicked"   *)
(*          once a call has panicked (the program is over)                 *)
(*   filter the filter                                                     *)
(*   ctor   the constructor call: its name and arguments                   *)
(*   last   the last call: its name, its argument, the []byte it handed to  *)
(*          AddBytes or ContainsBytes, and its result; again when it is an *)
(*          Add that repeats the call before it                            *)
(*   added  the []byte values AddBytes has completed on                    *)
(***************************************************************************)
VARIABLES pc, filter, ctor, last, added

vars == << pc, filter, ctor, last, added >>

NoCall ==
    [op |-> "none", arg |-> << >>, bytes |-> << >>, ret |-> "none",
     again |-> FALSE]

Init ==
    /\ pc = "start"
    /\ filter = NewMK(GoInt(0), GoInt(0))
    /\ ctor = [fn |-> "none", m |-> GoInt(0), k |-> GoInt(0)]
    /\ last = NoCall
    /\ added = {}

CallNew ==
    /\ pc = "start"
    /\ \E r \in CalcOptimalMKResults :
         /\ filter' = New(r[1], r[2])
         /\ ctor' = [fn |-> "New", m |-> r[1], k |-> r[2]]
    /\ pc' = "ready"
    /\ UNCHANGED << last, added >>

CallNewMK ==
    /\ pc = "start"
    /\ \E m \in NewMKSizes, k \in NewMKHashes :
         /\ filter' = NewMK(m, k)
         /\ ctor' = [fn |-> "NewMK", m |-> m, k |-> k]
    /\ pc' = "ready"
    /\ UNCHANGED << last, added >>

\* the effect of an Add call with the outcome r on the []byte value bytes
Added(op, arg, bytes, r) ==
    /\ filter' = r.b
    /\ pc' = IF r.panic THEN "panicked" ELSE "ready"
    /\ added' = IF r.panic THEN added ELSE added \cup { bytes }
    /\ last' = [op |-> op, arg |-> arg, bytes |-> bytes,
                ret |-> IF r.panic THEN "panic" ELSE "none",
                again |-> last.op = op /\ last.arg = arg]
    /\ UNCHANGED ctor

\* the effect of a Contains call with the outcome r
Queried(op, arg, bytes, r) ==
    /\ filter' = r.b
    /\ pc' = IF r.panic THEN "panicked" ELSE "ready"
    /\ last' = [op |-> op, arg |-> arg, bytes |-> bytes,
                ret |-> IF r.panic THEN "panic"
                        ELSE IF r.ret THEN "true" ELSE "false",
                again |-> FALSE]
    /\ UNCHANGED << ctor, added >>

CallAddBytes ==
    /\ pc = "ready"
    /\ \E value \in BytesInputs :
         Added("AddBytes", value, value, AddBytes(filter, value))

CallAddString ==
    /\ pc = "ready"
    /\ \E value \in StringInputs :
         Added("AddString", value, StringBytes(value), AddString(filter, value))

CallAddUInt32 ==
    /\ pc = "ready"
    /\ \E value \in UInt32Inputs :
         Added("AddUInt32", value, PutUint32(value), AddUInt32(filter, value))

CallAddUInt64 ==
    /\ pc = "ready"
    /\ \E value \in UInt64Inputs :
         Added("AddUInt64", value, PutUint64(value), AddUInt64(filter, value))

CallContainsBytes ==
    /\ pc = "ready"
    /\ \E value \in BytesInputs :
         Queried("ContainsBytes", value, value, ContainsBytes(filter, value))

CallContainsString ==
    /\ pc = "ready"
    /\ \E value \in StringInputs :
         Queried("ContainsString", value, StringBytes(value),
                 ContainsString(filter, value))

CallContainsUInt32 ==
    /\ pc = "ready"
    /\ \E value \in UInt32Inputs :
         Queried("ContainsUInt32", value, PutUint32(value),
                 ContainsUInt32(filter, value))

CallContainsUInt64 ==
    /\ pc = "ready"
    /\ \E value \in UInt64Inputs :
         Queried("ContainsUInt64", value, PutUint64(value),
                 ContainsUInt64(filter, value))

Next ==
    \/ CallNew
    \/ CallNewMK
    \/ CallAddBytes
    \/ CallAddString
    \/ CallAddUInt32
    \/ CallAddUInt64
    \/ CallContainsBytes
    \/ CallContainsString
    \/ CallContainsUInt32
    \/ CallContainsUInt64

Spec == Init /\ [][Next]_vars

(***************************************************************************)
(* Properties.                                                             *)
(***************************************************************************)
AddOps == { "AddBytes", "AddString", "AddUInt32", "AddUInt64" }

ContainsOps ==
    { "ContainsBytes", "ContainsString", "ContainsUInt32", "ContainsUInt64" }

\* 1 <= m <= 2^31 - 1, and k >= 1
InRange(m) == ~ SLess(m, GoInt(1)) /\ ~ SLess(MaxInt32, m)

AtLeastOne(k) == ~ SLess(k, GoInt(1))

\* the bit positions the k probes of value fall on
Positions(f, value) ==
    { kiMiHashOf(f, value, h).index : h \in 0 .. (Iterations(f.k) - 1) }

\* a completed ContainsBytes call that returned ret and left the filter alone
Returned(f, ret) == [b |-> f, ret |-> ret, panic |-> FALSE]

\* C1: no false negatives.  On a filter with 1 <= m <= 2^31 - 1 and k >= 1
\* (every filter New builds is one), in every state after AddBytes(v) has
\* completed, whatever calls came in between, ContainsBytes(v) returns true;
\* and every Contains call made on an added value did return true.
NoFalseNegatives ==
    (pc # "start" /\ InRange(filter.m) /\ AtLeastOne(filter.k)) =>
        /\ \A v \in added : ContainsBytes(filter, v) = Returned(filter, TRUE)
        /\ (last.op \in ContainsOps /\ last.bytes \in added) => last.ret = "true"

\* C1: two values were added, and the last call is a query of one of them
\* that returned true, on a filter large enough for the values to differ
NoFalseNegativesWitness ==
    /\ InRange(filter.m)
    /\ SLess(GoInt(1), filter.m)
    /\ Cardinality(added) >= 2
    /\ last.op = "ContainsBytes"
    /\ last.bytes \in added
    /\ last.ret = "true"
    /\ \E v \in Values : ~ ContainsBytes(filter, v).ret

\* C2: on a filter on which no Add has been called, built by New or by
\* NewMK with m >= 1 and k >= 1, every Contains call returns false.
EmptyFilterAnswersFalse ==
    (added = {} /\ last.op \in ContainsOps) => last.ret = "false"

\* C3: for the pair (m0, k0) that CalcOptimalMK returned, the filter of New
\* has m = 1 if m0 < 1, m = 2^31 - 1 if m0 > 2^31 - 1 and m = m0 otherwise,
\* and k = max(k0, 1); so it has 1 <= m <= 2^31 - 1 and k >= 1, it keeps
\* them, and neither New nor a later call on it fails.
NewClamps ==
    ctor.fn = "New" =>
        /\ SLess(ctor.m, GoInt(1)) => filter.m = GoInt(1)
        /\ SLess(MaxInt32, ctor.m) => filter.m = MaxInt32
        /\ (~ SLess(ctor.m, GoInt(1)) /\ ~ SLess(MaxInt32, ctor.m))
              => filter.m = ctor.m
        /\ filter.k = IF SLess(ctor.k, GoInt(1)) THEN GoInt(1) ELSE ctor.k
        /\ InRange(filter.m)
        /\ AtLeastOne(filter.k)
        /\ pc = "ready"

\* C3: New got m0 = 0 and a negative k0 (n = 0), made the minimal filter
\* of them, and a value has been added to it
NewClampsWitness ==
    /\ ctor.fn = "New"
    /\ ctor.m = GoInt(0)
    /\ IsNeg(ctor.k)
    /\ filter.m = GoInt(1)
    /\ filter.k = GoInt(1)
    /\ added # {}

\* C4: in every state, a uint32, uint64 or string whose Add wrapper has
\* completed is reported present by the matching Contains wrapper, and every
\* such Contains call made did return true.
EncodingConsistency ==
    /\ \A x \in UInt32Inputs :
          PutUint32(x) \in added
              => ContainsUInt32(filter, x) = Returned(filter, TRUE)
    /\ \A x \in UInt64Inputs :
          PutUint64(x) \in added
              => ContainsUInt64(filter, x) = Returned(filter, TRUE)
    /\ \A x \in StringInputs :
          StringBytes(x) \in added
              => ContainsString(filter, x) = Returned(filter, TRUE)
    /\ (last.op \in ContainsOps /\ last.bytes \in added) => last.ret = "true"

\* C4: ContainsUInt32(x) returned true after AddUInt32(x), on a filter that
\* does not hold every value
EncodingConsistencyWitness ==
    /\ last.op = "ContainsUInt32"
    /\ last.ret = "true"
    /\ PutUint32(last.arg) \in added
    /\ \E v \in Values : ~ ContainsBytes(filter, v).ret

\* C5: in every state and for every value v, AddBytes(v) on the filter that
\* AddBytes(v) left gives the same bits again; and a step that repeats the
\* Add before it leaves the bits as they are.
AddIsIdempotent ==
    /\ [](pc = "ready" =>
            \A v \in Values :
                AddBytes(AddBytes(filter, v).b, v).b = AddBytes(filter, v).b)
    /\ [][last'.again => filter'.bucket = filter.bucket]_vars

\* C5: AddString(v) has been called twice in a row, on a filter of several
\* bits
AddIsIdempotentWitness ==
    /\ last.op = "AddString"
    /\ last.again
    /\ last.bytes \in added
    /\ Cardinality(filter.bucket) >= 2

\* C6: for a filter of New, or of NewMK with any m >= 1 and k >= 1, no Add
\* call fails, and every bit that is set has its index in 0 .. m - 1.
AddStaysInside ==
    /\ last.op \in AddOps => last.ret # "panic"
    /\ \A index \in filter.bucket : ~ IsNeg(index) /\ ULess(index, filter.m)

\* (hash1(value) + i * hash2(value)) mod 2^32, the product as the sum of i
\* terms, then mod m for the int m
Position(m, value, i) ==
    LET sum[j \in 0..i] ==
            IF j = 0 THEN hash1(value) ELSE AddWrap(sum[j - 1], hash2(value))
    IN  IF ULess(ToInt(sum[i]), m) THEN ToInt(sum[i])
        ELSE ToInt(UMod(sum[i], ToUint32(m)))

\* C7: for every filter with positive m, every value and every probe index
\* i in 0 .. k - 1, the position Add and Contains probe is
\* ((hash1(value) + i * hash2(value)) mod 2^32) mod m.
ProbesFollowFormula ==
    pc = "ready" =>
        \A value \in Values, i \in 0 .. (Iterations(filter.k) - 1) :
            kiMiHashOf(filter, value, i)
                = [panic |-> FALSE, index |-> Position(filter.m, value, i)]

\* a query that stops at the first zero bit
ContainsStoppingAtZero(f, value) ==
    LET n == Iterations(f.k)
        loop[h \in 0..n] ==
            IF h = 0 THEN [ret |-> TRUE, panic |-> FALSE, done |-> FALSE]
            ELSE LET before == loop[h - 1]
                     at == kiMiHashOf(f, value, h - 1)
                 IN  IF before.panic \/ before.done THEN before
                     ELSE IF at.panic THEN [before EXCEPT !.panic = TRUE]
                     ELSE IF Bit(f.bucket, at.index) = 0
                          THEN [before EXCEPT !.ret = FALSE, !.done = TRUE]
                     ELSE before
    IN  loop[n]

\* C8: in every filter state and for every value, ContainsBytes fails when
\* the query stopping at the first zero bit fails, and otherwise returns
\* what that query returns: true exactly when all k probed bits are 1; and
\* every Contains call made returned that.
ContainsIsConjunction ==
    pc = "ready" =>
        /\ \A v \in Values :
              LET all == ContainsBytes(filter, v)
                  stop == ContainsStoppingAtZero(filter, v)
              IN  /\ all.panic = stop.panic
                  /\ ~ all.panic =>
                        /\ all.ret = stop.ret
                        /\ all.ret <=>
                              \A h \in 0 .. (Iterations(filter.k) - 1) :
                                  Bit(filter.bucket,
                                      kiMiHashOf(filter, v, h).index) = 1
        /\ last.op \in ContainsOps =>
              (last.ret = "true" <=> Positions(filter, last.bytes) \subseteq filter.bucket)

\* C8: a Contains call returned false for a value whose first probed bit is
\* 0 and whose last probed bit is 1
ContainsIsConjunctionWitness ==
    /\ pc = "ready"
    /\ last.op \in ContainsOps
    /\ last.ret = "false"
    /\ Iterations(filter.k) >= 2
    /\ Bit(filter.bucket, kiMiHashOf(filter, last.bytes, 0).index) = 0
    /\ Bit(filter.bucket,
           kiMiHashOf(filter, last.bytes, Iterations(filter.k) - 1).index) = 1

\* C9: no step after the construction changes m or k of the filter, a step
\* that changes a bit is an Add call, and every Contains call (bytes,
\* string, uint32, uint64) leaves m, k and all the bits as they were.
OnlyAddChangesBits ==
    [][pc = "ready" =>
          /\ filter'.m = filter.m
          /\ filter'.k = filter.k
          /\ filter'.bucket # filter.bucket => last'.op \in AddOps
          /\ ( \/ CallContainsBytes
               \/ CallContainsString
               \/ CallContainsUInt32
               \/ CallContainsUInt64 ) => filter' = filter]_vars

\* C9: ContainsString returned false on a filter that has bits set, all
\* of them bits of the values added
OnlyAddChangesBitsWitness ==
    /\ last.op = "ContainsString"
    /\ last.ret = "false"
    /\ filter.bucket # {}
    /\ filter.bucket = UNION { Positions(filter, v) : v \in added }

\* the probe positions of a set of values
PositionsOfAll(f, values) == UNION { Positions(f, v) : v \in values }

\* C10: on a filter with 1 <= m <= 2^31 - 1 and k >= 1, the bits that are 1
\* are exactly the probe positions of the values added so far; two Adds give
\* the same bits in either order; ContainsBytes(v) is true exactly when the
\* probe positions of v are among those of the values added; and no step
\* takes a bit from 1 to 0.
BitsAreProbesOfAdded ==
    /\ []((pc = "ready" /\ InRange(filter.m) /\ AtLeastOne(filter.k)) =>
            /\ filter.bucket = PositionsOfAll(filter, added)
            /\ \A v, w \in Values :
                  AddBytes(AddBytes(filter, v).b, w).b
                      = AddBytes(AddBytes(filter, w).b, v).b
            /\ \A v \in Values :
                  ContainsBytes(filter, v).ret
                      <=> Positions(filter, v) \subseteq PositionsOfAll(filter, added))
    /\ [][(pc = "ready" /\ InRange(filter.m) /\ AtLeastOne(filter.k))
              => filter.bucket \subseteq filter'.bucket]_vars

\* C10: after two values were added, a Contains call returned true for a
\* value that was not added: its probe positions are among theirs
BitsAreProbesOfAddedWitness ==
    /\ pc = "ready"
    /\ InRange(filter.m)
    /\ Cardinality(added) >= 2
    /\ Cardinality(filter.bucket) >= 2
    /\ last.op \in ContainsOps
    /\ last.bytes \notin added
    /\ last.ret = "true"
====
